---- MODULE Spec2Model ----
(***************************************************************************)
(* The query front end of SQiurreL: the recursive-descent parser of        *)
(* src/query/parser.rs run over the token stream of a Lexer.               *)
(*                                                                         *)
(* The parser is modelled as a stack machine: one frame per active call of *)
(* a parse routine, one action per straight-line piece of a routine        *)
(* between two calls or loop iterations.  Parser::next, expect, maybe and  *)
(* consume_ident are operators on the parser record (lexer, curr, peek).   *)
(***************************************************************************)
EXTENDS Integers, Sequences, FiniteSets, TLC

VARIABLES
    text,      \* the query text as first submitted (its lexical units)
    input,     \* the text the Lexer of the current run scans
    entry,     \* the public method the caller invokes: "parse" or "parse_stmt"
    lexer,     \* Lexer: the number of lexical units scanned so far
    curr,      \* Parser.curr
    peek,      \* Parser.peek
    stack,     \* the call stack of parse routines, innermost last
    ret,       \* the Result handed back by the routine that returned last
    result,    \* the Result the caller received
    phase,     \* "init" (Lexer built), "run" (inside the parser), "done"
    run,       \* 1: the run on text; 2: the run on text without its skipped ';'
    first,     \* the result of run 1, kept for comparison in run 2
    skipped    \* positions of input whose ';' parse_block skipped

vars == <<text, input, entry, lexer, curr, peek, stack, ret, result, phase,
          run, first, skipped>>

(***************************************************************************)
(* Tokens (lexer.rs: enum Token): <<kind>> or <<kind, payload>>.           *)
(***************************************************************************)
Tok(k) == <<k>>
TIdent(n) == <<"Ident", n>>
TNum(n) == <<"Num", n>>
TText(t) == <<"Text", t>>
TBool(b) == <<"Bool", b>>
Eof == <<"Eof">>
Semicolon == <<"Semicolon">>

\* The kinds declared by the enum of lexer.rs.
DeclaredKinds ==
    {"Null", "Num", "Text", "Ident", "Create", "Table", "Select", "From",
     "Where", "Update", "Alter", "Delete", "Drop", "Dot", "Comma",
     "Semicolon", "LParen", "RParen", "Not", "And", "Or", "Assign", "Gt",
     "Lt", "Ge", "Le", "Add", "Sub", "Mul", "Div"}

\* The kinds the parser names that the enum as given does not declare.
ParserKinds == {"Insert", "Into", "Values", "Set", "Eq", "Bool", "Eof"}

\* A lexical unit the Lexer cannot scan (bad character, unterminated text).
Unscannable == <<"?">>

discriminant(t) == t[1]

(***************************************************************************)
(* Results and errors (error.rs: QueryErr, Result).                        *)
(***************************************************************************)
Ok(v) == [ok |-> TRUE, val |-> v]
Err(e) == [ok |-> FALSE, err |-> e]
LexError == <<"LexError">>
UnexpectedToken(expected, found) == <<"UnexpectedToken", expected, found>>
InvalidExpr(msg) == <<"InvalidExpr", msg>>
NoRet == Ok(<<"none">>)

RECURSIVE Concat(_)
Concat(cs) == IF cs = <<>> THEN "" ELSE Head(cs) \o Concat(Tail(cs))

\* format!("{:?}", token) for the derived Debug of Token.
DebugFmt(t) ==
    CASE discriminant(t) = "Ident" -> "Ident(\"" \o t[2] \o "\")"
      [] discriminant(t) = "Text" -> "Text(\"" \o t[2] \o "\")"
      [] discriminant(t) = "Num" -> "Num(\"" \o Concat(t[2]) \o "\")"
      [] discriminant(t) = "Bool" -> IF t[2] THEN "Bool(true)" ELSE "Bool(false)"
      [] OTHER -> discriminant(t)

(***************************************************************************)
(* Lexer::next: one unit per call, Eof for ever once the text is           *)
(* exhausted, an error at an unscannable unit (where scanning stops).      *)
(***************************************************************************)
LexerNext(n) ==
    IF n < Len(input)
    THEN IF input[n + 1] = Unscannable
         THEN [ok |-> FALSE, err |-> LexError, lexer |-> n]
         ELSE [ok |-> TRUE, val |-> input[n + 1], lexer |-> n + 1]
    ELSE [ok |-> TRUE, val |-> Eof, lexer |-> n + 1]

(***************************************************************************)
(* The parser record and its primitives.  Each primitive yields            *)
(* [ok, val, p] or [ok, err, p] with p the parser afterwards.              *)
(***************************************************************************)
P == [lexer |-> lexer, curr |-> curr, peek |-> peek]

SetP(p) == /\ lexer' = p.lexer
           /\ curr' = p.curr
           /\ peek' = p.peek

\* Parser::new: curr and peek primed with the first two units.

\* Parser::new leaving peek for later when the second token cannot be lexed.
ParserNewOf_m ==
    LET a == LexerNext(0)
        b == LexerNext(a.lexer)
    IN  IF ~a.ok THEN [ok |-> FALSE, err |-> a.err]
        ELSE IF ~b.ok
        THEN [ok |-> TRUE, p |-> [lexer |-> a.lexer + 1, curr |-> a.val, peek |-> Eof]]
        ELSE [ok |-> TRUE, p |-> [lexer |-> b.lexer, curr |-> a.val, peek |-> b.val]]

ParserNewOf ==
    LET a == LexerNext(0)
        b == LexerNext(a.lexer)
    IN  IF ~a.ok THEN [ok |-> FALSE, err |-> a.err]
        ELSE IF ~b.ok THEN [ok |-> FALSE, err |-> b.err]
        ELSE [ok |-> TRUE, p |-> [lexer |-> b.lexer, curr |-> a.val, peek |-> b.val]]

\* Parser::next: the lexer is asked first; on its error nothing is replaced.

\* Parser::next putting the new token in curr and leaving peek as it was.
next_m(p) ==
    LET t == LexerNext(p.lexer)
    IN  IF ~t.ok
        THEN [ok |-> FALSE, err |-> t.err, p |-> p]
        ELSE [ok |-> TRUE, val |-> p.curr,
              p |-> [lexer |-> t.lexer, curr |-> t.val, peek |-> p.peek]]

next(p) ==
    LET t == LexerNext(p.lexer)
    IN  IF ~t.ok
        THEN [ok |-> FALSE, err |-> t.err, p |-> p]
        ELSE [ok |-> TRUE, val |-> p.curr,
              p |-> [lexer |-> t.lexer, curr |-> p.peek, peek |-> t.val]]


\* expect consuming the token it refuses.
expect_m(p, token) ==
    LET r == next(p)
    IN  IF discriminant(p.curr) = discriminant(token)
        THEN IF r.ok THEN [ok |-> TRUE, val |-> <<>>, p |-> r.p] ELSE r
        ELSE [ok |-> FALSE, p |-> r.p,
              err |-> UnexpectedToken(DebugFmt(token), DebugFmt(p.curr))]

expect(p, token) ==
    IF discriminant(p.curr) = discriminant(token)
    THEN LET r == next(p)
         IN  IF r.ok THEN [ok |-> TRUE, val |-> <<>>, p |-> r.p] ELSE r
    ELSE [ok |-> FALSE, p |-> p,
          err |-> UnexpectedToken(DebugFmt(token), DebugFmt(p.curr))]

maybe(p, token) ==
    IF discriminant(p.curr) = discriminant(token)
    THEN LET r == next(p)
         IN  IF r.ok THEN [ok |-> TRUE, val |-> TRUE, p |-> r.p] ELSE r
    ELSE [ok |-> TRUE, val |-> FALSE, p |-> p]


\* consume_ident naming the token after the one it refused.
consume_ident_m(p) ==
    LET r == next(p)
    IN  IF ~r.ok THEN r
        ELSE IF discriminant(r.val) = "Ident"
        THEN [ok |-> TRUE, val |-> r.val[2], p |-> r.p]
        ELSE [ok |-> FALSE, p |-> r.p,
              err |-> UnexpectedToken("<ident>", DebugFmt(r.p.curr))]

consume_ident(p) ==
    LET r == next(p)
    IN  IF ~r.ok THEN r
        ELSE IF discriminant(r.val) = "Ident"
        THEN [ok |-> TRUE, val |-> r.val[2], p |-> r.p]
        ELSE [ok |-> FALSE, p |-> r.p,
              err |-> UnexpectedToken("<ident>", DebugFmt(r.val))]

\* The `?` operator between two primitives: run F on r's parser unless r failed.
Then(r, F(_)) == IF r.ok THEN F(r.p) ELSE r

(***************************************************************************)
(* AST (parser.rs: Stmt, Clause, Expr).                                    *)
(***************************************************************************)
Defs(cs) == <<"Defs", cs>>
Columns(cs) == <<"Columns", cs>>
Values(vs) == <<"Values", vs>>
Assigns(as) == <<"Assigns", as>>
Where(e) == <<"Where", e>>
Binary(op, l, r) == <<"Binary", op, l, r>>

(***************************************************************************)
(* Call stack.                                                             *)
(***************************************************************************)
Frame(fn) ==
    [fn |-> fn, pc |-> "start", terms |-> {}, stmts |-> <<>>, table |-> "",
     columns |-> <<>>, values |-> <<>>, assigns |-> <<>>, col |-> "",
     clauses |-> <<>>, left |-> <<>>, op |-> ""]

Top == stack[Len(stack)]
Pop == SubSeq(stack, 1, Len(stack) - 1)
At(fn, pc) == /\ phase = "run"
              /\ stack # <<>>
              /\ Top.fn = fn
              /\ Top.pc = pc

Keep == UNCHANGED <<text, input, entry, result, phase, run, first>>

\* Stay in the routine, with its locals and position updated.
Goto(p, f) ==
    /\ SetP(p)
    /\ stack' = [stack EXCEPT ![Len(stack)] = f]
    /\ ret' = NoRet
    /\ UNCHANGED skipped
    /\ Keep

\* Call routine g; the caller resumes as f.
Call(p, f, g) ==
    /\ SetP(p)
    /\ stack' = Append([stack EXCEPT ![Len(stack)] = f], g)
    /\ ret' = NoRet
    /\ UNCHANGED skipped
    /\ Keep

\* return Ok(v) / return Err(e)
Return(p, r) ==
    /\ SetP(p)
    /\ stack' = Pop
    /\ ret' = r
    /\ UNCHANGED skipped
    /\ Keep

Fail(r) == Return(r.p, Err(r.err))

\* The pcs at which a routine waits for a callee's Result.
AwaitPcs == {"after_stmt", "left", "right", "paren", "where", "value", "assign"}

\* Propagate with parse_block keeping the statements parsed before the error.
Propagate_m ==
    /\ phase = "run"
    /\ stack # <<>>
    /\ Top.pc \in AwaitPcs
    /\ ~ret.ok
    /\ Return(P, IF Top.fn = "parse_block" THEN Ok(Top.stmts) ELSE ret)

\* `?` on a callee's Result: an Err is handed on to the caller unchanged.
Propagate ==
    /\ phase = "run"
    /\ stack # <<>>
    /\ Top.pc \in AwaitPcs
    /\ ~ret.ok
    /\ Return(P, ret)

(***************************************************************************)
(* Parser::parse, parse_block, parse_stmt                                  *)
(***************************************************************************)
parse ==
    /\ At("parse", "start")
    /\ Goto(P, [Frame("parse_block") EXCEPT !.terms = {"Eof"}])

parse_block_done ==
    /\ At("parse_block", "start")
    /\ discriminant(curr) \in Top.terms
    /\ Return(P, Ok(Top.stmts))


\* parse_block_skip with the ';' kept as a statement of its own.
parse_block_skip_m ==
    /\ At("parse_block", "start")
    /\ discriminant(curr) \notin Top.terms
    /\ curr = Semicolon
    /\ LET r == next(P)
       IN  /\ SetP(r.p)
           /\ IF r.ok
              THEN /\ stack' = [stack EXCEPT ![Len(stack)].stmts =
                                   Append(@, [kind |-> "Drop", table |-> ""])]
                   /\ ret' = NoRet
                   /\ skipped' = skipped \cup {lexer - 1}
              ELSE /\ stack' = Pop
                   /\ ret' = Err(r.err)
                   /\ UNCHANGED skipped
           /\ Keep

parse_block_skip ==
    /\ At("parse_block", "start")
    /\ discriminant(curr) \notin Top.terms
    /\ curr = Semicolon
    /\ LET r == next(P)
       IN  /\ SetP(r.p)
           /\ IF r.ok
              THEN /\ stack' = stack
                   /\ ret' = NoRet
                   /\ skipped' = skipped \cup {lexer - 1}
              ELSE /\ stack' = Pop
                   /\ ret' = Err(r.err)
                   /\ UNCHANGED skipped
           /\ Keep


\* parse_block_call asking for a ';' between two statements.
parse_block_call_m ==
    /\ At("parse_block", "start")
    /\ discriminant(curr) \notin Top.terms
    /\ curr # Semicolon
    /\ IF Top.stmts # <<>> /\ input[lexer - 2] # Semicolon
       THEN Return(P, Err(UnexpectedToken("Semicolon", DebugFmt(curr))))
       ELSE Call(P, [Top EXCEPT !.pc = "after_stmt"], Frame("parse_stmt"))

parse_block_call ==
    /\ At("parse_block", "start")
    /\ discriminant(curr) \notin Top.terms
    /\ curr # Semicolon
    /\ Call(P, [Top EXCEPT !.pc = "after_stmt"], Frame("parse_stmt"))


\* parse_block_push with the statement put in front.
parse_block_push_m ==
    /\ At("parse_block", "after_stmt")
    /\ ret.ok
    /\ Goto(P, [Top EXCEPT !.pc = "start", !.stmts = <<ret.val>> \o @])

parse_block_push ==
    /\ At("parse_block", "after_stmt")
    /\ ret.ok
    /\ Goto(P, [Top EXCEPT !.pc = "start", !.stmts = Append(@, ret.val)])


\* StmtRoutine with DELETE sent to the routine of DROP.
StmtRoutine_m(k) ==
    CASE k = "Create" -> "parse_create"
      [] k = "Insert" -> "parse_insert"
      [] k = "Select" -> "parse_select"
      [] k = "Update" -> "parse_update"
      [] k = "Delete" -> "parse_drop"
      [] k = "Drop" -> "parse_drop"
      [] OTHER -> ""

StmtRoutine(k) ==
    CASE k = "Create" -> "parse_create"
      [] k = "Insert" -> "parse_insert"
      [] k = "Select" -> "parse_select"
      [] k = "Update" -> "parse_update"
      [] k = "Delete" -> "parse_delete"
      [] k = "Drop" -> "parse_drop"
      [] OTHER -> ""

parse_stmt ==
    /\ At("parse_stmt", "start")
    /\ IF StmtRoutine(discriminant(curr)) # ""
       THEN Goto(P, Frame(StmtRoutine(discriminant(curr))))
       ELSE Return(P, Err(UnexpectedToken("<stmt>", DebugFmt(curr))))

(***************************************************************************)
(* parse_drop                                                              *)
(***************************************************************************)
parse_drop ==
    /\ At("parse_drop", "start")
    /\ LET r1 == expect(P, Tok("Drop"))
           r2 == Then(r1, LAMBDA p: expect(p, Tok("Table")))
           r3 == Then(r2, LAMBDA p: consume_ident(p))
       IN  IF r3.ok
           THEN Return(r3.p, Ok([kind |-> "Drop", table |-> r3.val]))
           ELSE Fail(r3)

\* match_list_end taking any token but ',' for the end of the list.
match_list_end_m(p) ==
    LET r == next(p)
    IN  IF ~r.ok THEN r
        ELSE IF r.val = Tok("Comma") THEN [ok |-> TRUE, val |-> "continue", p |-> r.p]
        ELSE [ok |-> TRUE, val |-> "break", p |-> r.p]

(***************************************************************************)
(* The end of an element of a parenthesised list:                          *)
(*   match self.next()? { Comma => continue, RParen => break, tok => Err } *)
(***************************************************************************)
match_list_end(p) ==
    LET r == next(p)
    IN  IF ~r.ok THEN r
        ELSE IF r.val = Tok("Comma") THEN [ok |-> TRUE, val |-> "continue", p |-> r.p]
        ELSE IF r.val = Tok("RParen") THEN [ok |-> TRUE, val |-> "break", p |-> r.p]
        ELSE [ok |-> FALSE, p |-> r.p,
              err |-> UnexpectedToken("',' or ')'", DebugFmt(r.val))]

(***************************************************************************)
(* parse_create                                                            *)
(***************************************************************************)
StmtCreate(f) ==
    [kind |-> "Create", table |-> f.table, defs |-> Defs(f.columns), clauses |-> <<>>]

parse_create ==
    /\ At("parse_create", "start")
    /\ LET r1 == expect(P, Tok("Create"))
           r2 == Then(r1, LAMBDA p: expect(p, Tok("Table")))
           r3 == Then(r2, LAMBDA p: consume_ident(p))
           r4 == Then(r3, LAMBDA p: expect(p, Tok("LParen")))
       IN  IF r4.ok
           THEN Goto(r4.p, [Top EXCEPT !.pc = "defs", !.table = r3.val])
           ELSE Fail(r4)

parse_create_defs ==
    /\ At("parse_create", "defs")
    /\ LET r1 == consume_ident(P)
           r2 == Then(r1, LAMBDA p: consume_ident(p))
           r3 == Then(r2, LAMBDA p: match_list_end(p))
           f  == [Top EXCEPT !.columns = Append(@, <<r1.val, r2.val>>)]
       IN  IF ~r3.ok THEN Fail(r3)
           ELSE IF r3.val = "continue" THEN Goto(r3.p, f)
           ELSE Return(r3.p, Ok(StmtCreate(f)))

(***************************************************************************)
(* parse_insert                                                            *)
(***************************************************************************)
StmtInsert(f) ==
    [kind |-> "Insert", table |-> f.table, columns |-> Columns(f.columns),
     values |-> Values(f.values), clauses |-> <<>>]


\* parse_insert taking '()' for a column list.
parse_insert_m ==
    /\ At("parse_insert", "start")
    /\ LET r1 == expect(P, Tok("Insert"))
           r2 == Then(r1, LAMBDA p: expect(p, Tok("Into")))
           r3 == Then(r2, LAMBDA p: consume_ident(p))
           r4 == Then(r3, LAMBDA p: maybe(p, Tok("LParen")))
           r5 == Then(r4, LAMBDA p: maybe(p, Tok("RParen")))
       IN  IF ~r5.ok THEN Fail(r5)
           ELSE Goto(r5.p, [Top EXCEPT !.table = r3.val,
                                       !.pc = IF r4.val /\ ~r5.val THEN "columns"
                                              ELSE "values_head"])

parse_insert ==
    /\ At("parse_insert", "start")
    /\ LET r1 == expect(P, Tok("Insert"))
           r2 == Then(r1, LAMBDA p: expect(p, Tok("Into")))
           r3 == Then(r2, LAMBDA p: consume_ident(p))
           r4 == Then(r3, LAMBDA p: maybe(p, Tok("LParen")))
       IN  IF ~r4.ok THEN Fail(r4)
           ELSE Goto(r4.p, [Top EXCEPT !.table = r3.val,
                                       !.pc = IF r4.val THEN "columns" ELSE "values_head"])

parse_insert_columns ==
    /\ At("parse_insert", "columns")
    /\ LET r1 == consume_ident(P)
           r2 == Then(r1, LAMBDA p: match_list_end(p))
           f  == [Top EXCEPT !.columns = Append(@, r1.val)]
       IN  IF ~r2.ok THEN Fail(r2)
           ELSE IF r2.val = "continue" THEN Goto(r2.p, f)
           ELSE Goto(r2.p, [f EXCEPT !.pc = "values_head"])

parse_insert_values_head ==
    /\ At("parse_insert", "values_head")
    /\ LET r1 == expect(P, Tok("Values"))
           r2 == Then(r1, LAMBDA p: expect(p, Tok("LParen")))
       IN  IF r2.ok THEN Goto(r2.p, [Top EXCEPT !.pc = "values"]) ELSE Fail(r2)

parse_insert_values ==
    /\ At("parse_insert", "values")
    /\ Call(P, [Top EXCEPT !.pc = "value"], Frame("parse_expr"))


\* parse_insert_value putting each value in front of the ones before it.
parse_insert_value_m ==
    /\ At("parse_insert", "value")
    /\ ret.ok
    /\ LET r == match_list_end(P)
           f == [Top EXCEPT !.values = <<ret.val>> \o @]
       IN  IF ~r.ok THEN Fail(r)
           ELSE IF r.val = "continue" THEN Goto(r.p, [f EXCEPT !.pc = "values"])
           ELSE Return(r.p, Ok(StmtInsert(f)))

parse_insert_value ==
    /\ At("parse_insert", "value")
    /\ ret.ok
    /\ LET r == match_list_end(P)
           f == [Top EXCEPT !.values = Append(@, ret.val)]
       IN  IF ~r.ok THEN Fail(r)
           ELSE IF r.val = "continue" THEN Goto(r.p, [f EXCEPT !.pc = "values"])
           ELSE Return(r.p, Ok(StmtInsert(f)))

(***************************************************************************)
(* parse_select                                                            *)
(***************************************************************************)
StmtSelect(f) ==
    [kind |-> "Select", table |-> f.table, columns |-> Columns(f.columns),
     clauses |-> f.clauses]


\* parse_select letting a ',' after '*' continue into the column list.
parse_select_m ==
    /\ At("parse_select", "start")
    /\ LET r1 == expect(P, Tok("Select"))
       IN  IF ~r1.ok THEN Fail(r1)
           ELSE IF r1.p.curr = Tok("Mul")
           THEN LET r2 == next(r1.p)
                    r3 == Then(r2, LAMBDA p: maybe(p, Tok("Comma")))
                IN  IF ~r3.ok THEN Fail(r3)
                    ELSE IF r3.val
                    THEN Goto(r3.p, [Top EXCEPT !.pc = "columns", !.columns = <<"*">>])
                    ELSE Goto(r3.p, [Top EXCEPT !.pc = "from", !.columns = <<"*">>])
           ELSE Goto(r1.p, [Top EXCEPT !.pc = "columns"])

parse_select ==
    /\ At("parse_select", "start")
    /\ LET r1 == expect(P, Tok("Select"))
       IN  IF ~r1.ok THEN Fail(r1)
           ELSE IF r1.p.curr = Tok("Mul")
           THEN LET r2 == next(r1.p)
                IN  IF r2.ok
                    THEN Goto(r2.p, [Top EXCEPT !.pc = "from", !.columns = <<"*">>])
                    ELSE Fail(r2)
           ELSE Goto(r1.p, [Top EXCEPT !.pc = "columns"])

parse_select_columns ==
    /\ At("parse_select", "columns")
    /\ LET r1 == consume_ident(P)
           r2 == Then(r1, LAMBDA p: maybe(p, Tok("Comma")))
           f  == [Top EXCEPT !.columns = Append(@, r1.val)]
       IN  IF ~r2.ok THEN Fail(r2)
           ELSE IF r2.val THEN Goto(r2.p, f)
           ELSE Goto(r2.p, [f EXCEPT !.pc = "from"])

parse_select_from ==
    /\ At("parse_select", "from")
    /\ LET r1 == expect(P, Tok("From"))
           r2 == Then(r1, LAMBDA p: consume_ident(p))
           r3 == Then(r2, LAMBDA p: maybe(p, Tok("Where")))
           f  == [Top EXCEPT !.table = r2.val]
       IN  IF ~r3.ok THEN Fail(r3)
           ELSE IF r3.val THEN Call(r3.p, [f EXCEPT !.pc = "where"], Frame("parse_expr"))
           ELSE Return(r3.p, Ok(StmtSelect(f)))

parse_select_where ==
    /\ At("parse_select", "where")
    /\ ret.ok
    /\ Return(P, Ok(StmtSelect([Top EXCEPT !.clauses = Append(@, Where(ret.val))])))

(***************************************************************************)
(* parse_update                                                            *)
(***************************************************************************)
StmtUpdate(f) ==
    [kind |-> "Update", table |-> f.table, assigns |-> Assigns(f.assigns),
     clauses |-> f.clauses]

parse_update ==
    /\ At("parse_update", "start")
    /\ LET r1 == expect(P, Tok("Update"))
           r2 == Then(r1, LAMBDA p: consume_ident(p))
           r3 == Then(r2, LAMBDA p: expect(p, Tok("Set")))
       IN  IF r3.ok
           THEN Goto(r3.p, [Top EXCEPT !.pc = "assigns", !.table = r2.val])
           ELSE Fail(r3)

parse_update_assigns ==
    /\ At("parse_update", "assigns")
    /\ LET r1 == consume_ident(P)
           r2 == Then(r1, LAMBDA p: expect(p, Tok("Eq")))
       IN  IF r2.ok
           THEN Call(r2.p, [Top EXCEPT !.pc = "assign", !.col = r1.val],
                     Frame("parse_expr"))
           ELSE Fail(r2)

parse_update_assign ==
    /\ At("parse_update", "assign")
    /\ ret.ok
    /\ LET f  == [Top EXCEPT !.assigns = Append(@, <<Top.col, ret.val>>)]
           r1 == maybe(P, Tok("Comma"))
           r2 == Then(r1, LAMBDA p: maybe(p, Tok("Where")))
       IN  IF ~r1.ok THEN Fail(r1)
           ELSE IF r1.val THEN Goto(r1.p, [f EXCEPT !.pc = "assigns"])
           ELSE IF ~r2.ok THEN Fail(r2)
           ELSE IF r2.val THEN Call(r2.p, [f EXCEPT !.pc = "where"], Frame("parse_expr"))
           ELSE Return(r2.p, Ok(StmtUpdate(f)))

parse_update_where ==
    /\ At("parse_update", "where")
    /\ ret.ok
    /\ Return(P, Ok(StmtUpdate([Top EXCEPT !.clauses = Append(@, Where(ret.val))])))

(***************************************************************************)
(* parse_delete                                                            *)
(***************************************************************************)
StmtDelete(f) == [kind |-> "Delete", table |-> f.table, clauses |-> f.clauses]

parse_delete ==
    /\ At("parse_delete", "start")
    /\ LET r1 == expect(P, Tok("Delete"))
           r2 == Then(r1, LAMBDA p: expect(p, Tok("From")))
           r3 == Then(r2, LAMBDA p: consume_ident(p))
           r4 == Then(r3, LAMBDA p: maybe(p, Tok("Where")))
           f  == [Top EXCEPT !.table = r3.val]
       IN  IF ~r4.ok THEN Fail(r4)
           ELSE IF r4.val THEN Call(r4.p, [f EXCEPT !.pc = "where"], Frame("parse_expr"))
           ELSE Return(r4.p, Ok(StmtDelete(f)))


\* parse_delete_where returning the statement without its Where clause.
parse_delete_where_m ==
    /\ At("parse_delete", "where")
    /\ ret.ok
    /\ Return(P, Ok(StmtDelete(Top)))

parse_delete_where ==
    /\ At("parse_delete", "where")
    /\ ret.ok
    /\ Return(P, Ok(StmtDelete([Top EXCEPT !.clauses = Append(@, Where(ret.val))])))

(***************************************************************************)
(* Expressions: parse_expr, parse_logical_or, parse_logical_and,           *)
(* parse_comparison, parse_primary                                         *)
(***************************************************************************)
parse_expr ==
    /\ At("parse_expr", "start")
    /\ Goto(P, Frame("parse_logical_or"))

\* or_loop entering the loop body on OR without consuming it.
or_loop_m(f) ==
    IF discriminant(curr) = "Or"
    THEN Call(P, [f EXCEPT !.pc = "right"], Frame("parse_logical_and"))
    ELSE Return(P, Ok(f.left))

\* while self.maybe(&Token::Or)? { let right = self.parse_logical_and()?; ... }
or_loop(f) ==
    LET r == maybe(P, Tok("Or"))
    IN  IF ~r.ok THEN Fail(r)
        ELSE IF r.val THEN Call(r.p, [f EXCEPT !.pc = "right"], Frame("parse_logical_and"))
        ELSE Return(r.p, Ok(f.left))


\* parse_logical_or taking a comparison, not an AND chain, for its left operand.
parse_logical_or_m ==
    /\ At("parse_logical_or", "start")
    /\ Call(P, [Top EXCEPT !.pc = "left"], Frame("parse_comparison"))

parse_logical_or ==
    /\ At("parse_logical_or", "start")
    /\ Call(P, [Top EXCEPT !.pc = "left"], Frame("parse_logical_and"))

parse_logical_or_left ==
    /\ At("parse_logical_or", "left")
    /\ ret.ok
    /\ or_loop([Top EXCEPT !.left = ret.val])

parse_logical_or_right ==
    /\ At("parse_logical_or", "right")
    /\ ret.ok
    /\ or_loop([Top EXCEPT !.left = Binary("OR", Top.left, ret.val)])

\* while self.maybe(&Token::And)? { let right = self.parse_comparison()?; ... }
and_loop(f) ==
    LET r == maybe(P, Tok("And"))
    IN  IF ~r.ok THEN Fail(r)
        ELSE IF r.val THEN Call(r.p, [f EXCEPT !.pc = "right"], Frame("parse_comparison"))
        ELSE Return(r.p, Ok(f.left))

parse_logical_and ==
    /\ At("parse_logical_and", "start")
    /\ Call(P, [Top EXCEPT !.pc = "left"], Frame("parse_comparison"))

parse_logical_and_left ==
    /\ At("parse_logical_and", "left")
    /\ ret.ok
    /\ and_loop([Top EXCEPT !.left = ret.val])


\* parse_logical_and_right nesting a run of AND to the right.
parse_logical_and_right_m ==
    /\ At("parse_logical_and", "right")
    /\ ret.ok
    /\ and_loop([Top EXCEPT !.left =
                    IF Top.left[1] = "Binary" /\ Top.left[2] = "AND"
                    THEN Binary("AND", Top.left[3], Binary("AND", Top.left[4], ret.val))
                    ELSE Binary("AND", Top.left, ret.val)])

parse_logical_and_right ==
    /\ At("parse_logical_and", "right")
    /\ ret.ok
    /\ and_loop([Top EXCEPT !.left = Binary("AND", Top.left, ret.val)])

\* The operator text of a comparison token; "" for any other token.
comparison_op(k) ==
    CASE k = "Eq" -> "="
      [] k = "Gt" -> ">"
      [] k = "Lt" -> "<"
      [] k = "Ge" -> ">="
      [] k = "Le" -> "<="
      [] OTHER -> ""

parse_comparison ==
    /\ At("parse_comparison", "start")
    /\ Call(P, [Top EXCEPT !.pc = "left"], Frame("parse_primary"))

parse_comparison_left ==
    /\ At("parse_comparison", "left")
    /\ ret.ok
    /\ LET op == comparison_op(discriminant(curr))
           r  == next(P)
       IN  IF op = "" THEN Return(P, Ok(ret.val))
           ELSE IF ~r.ok THEN Fail(r)
           ELSE Call(r.p, [Top EXCEPT !.pc = "right", !.left = ret.val, !.op = op],
                     Frame("parse_primary"))


\* parse_comparison_right going on to a further operator (a loop for the match).
parse_comparison_right_m ==
    /\ At("parse_comparison", "right")
    /\ ret.ok
    /\ LET e  == Binary(Top.op, Top.left, ret.val)
           op == comparison_op(discriminant(curr))
           r  == next(P)
       IN  IF op = "" THEN Return(P, Ok(e))
           ELSE IF ~r.ok THEN Fail(r)
           ELSE Call(r.p, [Top EXCEPT !.left = e, !.op = op], Frame("parse_primary"))

parse_comparison_right ==
    /\ At("parse_comparison", "right")
    /\ ret.ok
    /\ Return(P, Ok(Binary(Top.op, Top.left, ret.val)))

\* Numeric text: a sequence of characters out of the digits and '.'.
Digits == {"0", "1", "2", "3", "4", "5", "6", "7", "8", "9"}

DigitVal(c) ==
    CASE c = "0" -> 0 [] c = "1" -> 1 [] c = "2" -> 2 [] c = "3" -> 3
      [] c = "4" -> 4 [] c = "5" -> 5 [] c = "6" -> 6 [] c = "7" -> 7
      [] c = "8" -> 8 [] c = "9" -> 9

RECURSIVE DigitsVal(_, _)
DigitsVal(cs, acc) ==
    IF cs = <<>> THEN acc ELSE DigitsVal(Tail(cs), 10 * acc + DigitVal(Head(cs)))

\* n.parse::<i64>() on such text: a non-empty run of digits.
parse_i64(n) ==
    IF n # <<>> /\ \A i \in 1..Len(n) : n[i] \in Digits
    THEN Ok(DigitsVal(n, 0))
    ELSE Err("ParseIntError")

RECURSIVE Scaled(_, _)
Scaled(m, k) == IF k > 0 /\ m % 10 = 0 THEN Scaled(m \div 10, k - 1) ELSE <<m, k>>

\* n.parse::<f64>() on such text: digits with at most one '.', and at least
\* one digit; the value m / 10^k is kept as <<m, k>> in lowest terms.
parse_f64(n) ==
    LET dots == {i \in 1..Len(n) : n[i] = "."}
        digs == SelectSeq(n, LAMBDA c: c \in Digits)
    IN  IF /\ \A i \in 1..Len(n) : n[i] \in Digits \cup {"."}
           /\ Cardinality(dots) <= 1
           /\ digs # <<>>
        THEN Ok(Scaled(DigitsVal(digs, 0),
                       IF dots = {} THEN 0 ELSE Len(n) - (CHOOSE i \in dots : TRUE)))
        ELSE Err("ParseFloatError")

number(n) ==
    IF parse_i64(n).ok THEN Ok(<<"Int", parse_i64(n).val>>)
    ELSE IF parse_f64(n).ok THEN Ok(<<"Float", parse_f64(n).val>>)
    ELSE Err(InvalidExpr("Invalid number: " \o Concat(n)))

parse_primary ==
    /\ At("parse_primary", "start")
    /\ LET r == next(P)
           k == discriminant(r.val)
       IN  IF ~r.ok THEN Fail(r)
           ELSE CASE k = "Null" -> Return(r.p, Ok(<<"Null">>))
                  [] k = "Bool" -> Return(r.p, Ok(<<"Bool", r.val[2]>>))
                  [] k = "Num" -> Return(r.p, number(r.val[2]))
                  [] k = "Text" -> Return(r.p, Ok(<<"Text", r.val[2]>>))
                  [] k = "Ident" -> Return(r.p, Ok(<<"Ident", r.val[2]>>))
                  [] k = "LParen" ->
                       Call(r.p, [Top EXCEPT !.pc = "paren", !.left = <<>>],
                            Frame("parse_expr"))
                  [] OTHER ->
                       Return(r.p, Err(UnexpectedToken("<expr>", DebugFmt(r.val))))

parse_primary_paren ==
    /\ At("parse_primary", "paren")
    /\ ret.ok
    /\ LET r == expect(P, Tok("RParen"))
       IN  IF r.ok THEN Return(r.p, Ok(ret.val)) ELSE Fail(r)

(***************************************************************************)
(* The caller: Parser::new, then parse() or parse_stmt().                  *)
(***************************************************************************)
(***************************************************************************)
(* The texts submitted.                                                    *)
(***************************************************************************)
MaxSemis == 4       \* ';' in one text of two statements
MaxOperands == 3    \* operands of one AND/OR run
MaxList == 2        \* elements of one list

K(k) == Tok(k)
Name(i) == <<"a", "b", "c", "d", "e", "f", "g", "h">>[i]
Lit(i) == <<TNum(<<"1">>), TText("Alice"), TNum(<<"3", ".", "1", "4">>),
            TBool(TRUE), K("Null"), TNum(<<"4", "2">>), TBool(FALSE),
            TNum(<<"7">>)>>[i]
CmpKind(i) == <<"Eq", "Gt", "Lt", "Ge", "Le", "Eq", "Gt", "Lt">>[i]

RECURSIVE Flat(_)
Flat(ss) == IF ss = <<>> THEN <<>> ELSE Head(ss) \o Flat(Tail(ss))

Semis(n) == [i \in 1..n |-> Semicolon]

\* Two statements (or fragments) with runs of ';' before, between and after.
SepStmts ==
    {<<>>,
     <<K("Drop"), K("Table"), TIdent("a")>>,
     <<K("Delete"), K("From"), TIdent("b")>>,
     <<K("Select"), K("Mul"), K("From"), TIdent("c"), K("Where"), TIdent("x")>>,
     <<K("Update"), TIdent("d"), K("Set"), TIdent("y"), K("Eq"), TNum(<<"1">>)>>,
     <<K("Eq"), TIdent("z")>>,
     <<K("Drop"), K("Table")>>,
     <<Unscannable>>}

SepInputs ==
    {Semis(t[1]) \o t[4] \o Semis(t[2]) \o t[5] \o Semis(t[3]) :
        t \in {u \in (0..MaxSemis) \X (0..MaxSemis) \X (0..MaxSemis)
                       \X SepStmts \X SepStmts : u[1] + u[2] + u[3] <= MaxSemis}}

\* Expressions: n operands joined by AND/OR, one operand range in parentheses.
Unit(form, i) ==
    CASE form = "prim" -> <<TIdent(Name(i))>>
      [] form = "cmp" -> <<TIdent(Name(i)), K(CmpKind(i)), Lit(i)>>
      [] form = "chain" -> <<TIdent(Name(i)), K("Eq"), Lit(i), K("Eq"), Lit(i + 1)>>

ExprToks(form, n, ops, lo, hi) ==
    Flat([i \in 1..n |->
            (IF i = lo THEN <<K("LParen")>> ELSE <<>>)
            \o Unit(form, i)
            \o (IF i = hi THEN <<K("RParen")>> ELSE <<>>)
            \o (IF i < n THEN <<K(ops[i])>> ELSE <<>>)])

ExprSet ==
    UNION {UNION {{ExprToks(form, n, ops, r[1], r[2]) :
                     r \in {<<0, 0>>} \cup {q \in (1..n) \X (1..n) : q[1] <= q[2]}} :
                  ops \in [1..(n - 1) -> {"And", "Or"}]} :
           <<form, n>> \in {"prim", "cmp", "chain"} \X (1..MaxOperands)}

ExprInputs ==
    UNION {{<<K("Select"), K("Mul"), K("From"), TIdent("t"), K("Where")>> \o e,
            <<K("Delete"), K("From"), TIdent("t"), K("Where")>> \o e,
            <<K("Update"), TIdent("t"), K("Set"), TIdent("v"), K("Eq")>> \o e,
            <<K("Update"), TIdent("t"), K("Set"), TIdent("v"), K("Eq"), Lit(1),
              K("Where")>> \o e,
            <<K("Insert"), K("Into"), TIdent("t"), K("Values"), K("LParen")>> \o e
                \o <<K("RParen")>>} : e \in ExprSet}

\* Statements of every kind with lists of k elements.
List(k, Elem(_)) ==
    Flat([i \in 1..k |-> Elem(i) \o (IF i < k THEN <<K("Comma")>> ELSE <<>>)])

Bases(k) ==
    {<<K("Create"), K("Table"), TIdent("t"), K("LParen")>>
        \o List(k, LAMBDA i: <<TIdent(Name(i)), TIdent("int")>>) \o <<K("RParen")>>,
     <<K("Insert"), K("Into"), TIdent("t"), K("LParen")>>
        \o List(k, LAMBDA i: <<TIdent(Name(i))>>)
        \o <<K("RParen"), K("Values"), K("LParen")>>
        \o List(k, LAMBDA i: <<Lit(i)>>) \o <<K("RParen")>>,
     <<K("Insert"), K("Into"), TIdent("t"), K("Values"), K("LParen")>>
        \o List(k, LAMBDA i: <<Lit(i)>>) \o <<K("RParen")>>,
     <<K("Select")>> \o List(k, LAMBDA i: <<TIdent(Name(i))>>)
        \o <<K("From"), TIdent("t"), K("Where"), TIdent("x")>>,
     <<K("Select"), K("Mul"), K("From"), TIdent("t")>>,
     <<K("Update"), TIdent("t"), K("Set")>>
        \o List(k, LAMBDA i: <<TIdent(Name(i)), K("Eq"), Lit(i)>>)
        \o <<K("Where"), TIdent("x")>>,
     <<K("Delete"), K("From"), TIdent("t")>>,
     <<K("Drop"), K("Table"), TIdent("t")>>}

\* One token of every kind, and the unscannable unit.
Alphabet ==
    {K(k) : k \in (DeclaredKinds \cup ParserKinds) \ {"Num", "Text", "Ident", "Bool", "Eof"}}
    \cup {TIdent("z"), TText("s"), TBool(TRUE), TNum(<<"9">>),
          TNum(<<"1", ".", "2", ".", "3">>), Unscannable}

\* A base statement with one token replaced, inserted or removed.
Mutations(s) ==
    {s}
    \cup {[s EXCEPT ![i] = m] : <<i, m>> \in (1..Len(s)) \X Alphabet}
    \cup {SubSeq(s, 1, i) \o <<m>> \o SubSeq(s, i + 1, Len(s)) :
             <<i, m>> \in (0..Len(s)) \X Alphabet}
    \cup {SubSeq(s, 1, i - 1) \o SubSeq(s, i + 1, Len(s)) : i \in 1..Len(s)}

MutInputs == UNION {UNION {Mutations(s) : s \in Bases(k)} : k \in 1..MaxList}


\* The texts the tests of parser.rs and the specification name.
Examples ==
    {<<K("Drop"), K("Table"), TIdent("users")>>,
     <<K("Select"), K("Mul"), K("From"), TIdent("users")>>,
     <<K("Select"), TIdent("id"), K("Comma"), TIdent("name"), K("From"), TIdent("users")>>,
     <<K("Insert"), K("Into"), TIdent("users"), K("LParen"), TIdent("id"), K("Comma"),
       TIdent("name"), K("RParen"), K("Values"), K("LParen"), TNum(<<"1">>), K("Comma"),
       TText("Alice"), K("RParen")>>,
     <<K("Select"), K("Mul"), K("From"), TIdent("users"), K("Where"), TIdent("id"),
       K("Eq"), TNum(<<"1">>), K("And"), TIdent("name"), K("Eq"), TText("Alice")>>,
     <<K("Delete"), K("From"), TIdent("users")>>,
     <<Semicolon, Semicolon, K("Select"), K("Mul"), K("From"), TIdent("t"),
       Semicolon, Semicolon>>,
     <<K("Select"), K("Mul"), K("From"), TIdent("t"), K("Where"), TIdent("a"), K("Eq"),
       TNum(<<"1">>), K("And"), TIdent("b"), K("Eq"), TNum(<<"2">>), K("And"),
       TIdent("c"), K("Eq"), TNum(<<"3">>)>>,
     <<K("Select"), K("Mul"), K("From"), TIdent("t"), K("Where"), TIdent("a"), K("Eq"),
       TIdent("b"), K("Eq"), TIdent("c")>>,
     <<K("Select"), K("From")>>,
     <<K("Drop"), K("Table"), TIdent("a"), K("Drop"), K("Table"), TIdent("b")>>,
     <<K("Drop"), K("Table"), TNum(<<"5">>), Unscannable>>}


\* The texts with a list left empty.
EmptyLists ==
    {<<K("Create"), K("Table"), TIdent("t"), K("LParen"), K("RParen")>>,
     <<K("Insert"), K("Into"), TIdent("t"), K("LParen"), K("RParen"), K("Values"),
       K("LParen"), TNum(<<"1">>), K("RParen")>>,
     <<K("Insert"), K("Into"), TIdent("t"), K("Values"), K("LParen"), K("RParen")>>,
     <<K("Select"), K("From"), TIdent("t")>>,
     <<K("Update"), TIdent("t"), K("Set"), K("Where"), TIdent("x")>>,
     <<K("Update"), TIdent("t"), K("Set")>>}


\* Two statements with a ';' between them.
Separated ==
    {<<K("Drop"), K("Table"), TIdent("a"), Semicolon, K("Drop"), K("Table"), TIdent("b")>>}


\* A misplaced '*' with an unscannable unit right after it.
StarThenUnscannable ==
    {<<K("Select"), K("Mul"), K("Comma"), Unscannable>>,
     <<K("Select"), TIdent("a"), K("Mul"), Unscannable>>,
     <<K("Select"), TIdent("a"), K("Comma"), K("Mul"), Unscannable>>}

Inputs ==
    SepInputs \cup ExprInputs \cup MutInputs \cup Examples \cup EmptyLists \cup Separated
    \cup StarThenUnscannable

Init ==
    /\ text \in Inputs
    /\ input = text
    /\ entry \in {"parse", "parse_stmt"}
    /\ lexer = 0
    /\ curr = Eof
    /\ peek = Eof
    /\ stack = <<>>
    /\ ret = NoRet
    /\ result = NoRet
    /\ phase = "init"
    /\ run = 1
    /\ first = NoRet
    /\ skipped = {}

ParserNew ==
    /\ phase = "init"
    /\ LET r == ParserNewOf
       IN  IF r.ok
           THEN /\ SetP(r.p)
                /\ stack' = <<Frame(entry)>>
                /\ phase' = "run"
                /\ result' = NoRet
           ELSE /\ UNCHANGED <<lexer, curr, peek, stack>>
                /\ phase' = "done"
                /\ result' = Err(r.err)
    /\ ret' = NoRet
    /\ UNCHANGED <<text, input, entry, run, first, skipped>>

\* The outermost routine has returned: the caller holds its Result.
Finish ==
    /\ phase = "run"
    /\ stack = <<>>
    /\ result' = ret
    /\ phase' = "done"
    /\ UNCHANGED <<text, input, entry, lexer, curr, peek, stack, ret, run,
                   first, skipped>>

RECURSIVE Without(_, _, _)
Without(s, drop, i) ==
    IF i > Len(s) THEN <<>>
    ELSE (IF i \in drop THEN <<>> ELSE <<s[i]>>) \o Without(s, drop, i + 1)

\* The caller submits the same text again with the skipped ';' taken out.
Resubmit ==
    /\ phase = "done"
    /\ run = 1
    /\ entry = "parse"
    /\ skipped # {}
    /\ input' = Without(input, skipped, 1)
    /\ first' = result
    /\ run' = 2
    /\ phase' = "init"
    /\ lexer' = 0
    /\ curr' = Eof
    /\ peek' = Eof
    /\ stack' = <<>>
    /\ ret' = NoRet
    /\ result' = NoRet
    /\ skipped' = {}
    /\ UNCHANGED <<text, entry>>

Next ==
    \/ ParserNew
    \/ Finish
    \/ Resubmit
    \/ Propagate
    \/ parse
    \/ parse_block_done
    \/ parse_block_skip
    \/ parse_block_call
    \/ parse_block_push
    \/ parse_stmt
    \/ parse_drop
    \/ parse_create
    \/ parse_create_defs
    \/ parse_insert
    \/ parse_insert_columns
    \/ parse_insert_values_head
    \/ parse_insert_values
    \/ parse_insert_value
    \/ parse_select
    \/ parse_select_columns
    \/ parse_select_from
    \/ parse_select_where
    \/ parse_update
    \/ parse_update_assigns
    \/ parse_update_assign
    \/ parse_update_where
    \/ parse_delete
    \/ parse_delete_where
    \/ parse_expr
    \/ parse_logical_or
    \/ parse_logical_or_left
    \/ parse_logical_or_right
    \/ parse_logical_and
    \/ parse_logical_and_left
    \/ parse_logical_and_right
    \/ parse_comparison
    \/ parse_comparison_left
    \/ parse_comparison_right
    \/ parse_primary
    \/ parse_primary_paren

Spec == Init /\ [][Next]_vars

(***************************************************************************)
(* Reading a result.                                                       *)
(***************************************************************************)
Done == phase = "done"
Succeeded == Done /\ result.ok
Parsed == Succeeded /\ entry = "parse"
ResultStmts == IF entry = "parse" THEN result.val ELSE <<result.val>>

HeadKinds == {"Create", "Insert", "Select", "Update", "Delete", "Drop"}
CmpOps == {"=", ">", "<", ">=", "<="}
CmpKinds == {"Eq", "Gt", "Lt", "Ge", "Le"}

\* The tokens a statement was built from, in order, without the punctuation
\* and the keywords that leave no trace in the AST.
RECURSIVE ExprYield(_)
ExprYield(e) ==
    IF e[1] = "Binary"
    THEN ExprYield(e[3]) \o <<<<"Op", e[2]>>>> \o ExprYield(e[4])
    ELSE <<e>>

ColumnYield(c) == IF c = "*" THEN <<"Mul">> ELSE <<"Ident", c>>

ClausesYield(cl) ==
    Flat([i \in 1..Len(cl) |-> <<<<cl[i][1]>>>> \o ExprYield(cl[i][2])])

StmtYield(st) ==
    LET head == <<<<st.kind>>>>
        table == <<<<"Ident", st.table>>>>
    IN  CASE st.kind = "Create" ->
               head \o table \o
               Flat([i \in 1..Len(st.defs[2]) |->
                       << <<"Ident", st.defs[2][i][1]>>, <<"Ident", st.defs[2][i][2]>> >>])
          [] st.kind = "Insert" ->
               head \o table \o
               [i \in 1..Len(st.columns[2]) |-> ColumnYield(st.columns[2][i])]
               \o Flat([i \in 1..Len(st.values[2]) |-> ExprYield(st.values[2][i])])
          [] st.kind = "Select" ->
               head \o
               [i \in 1..Len(st.columns[2]) |-> ColumnYield(st.columns[2][i])]
               \o table \o ClausesYield(st.clauses)
          [] st.kind = "Update" ->
               head \o table \o
               Flat([i \in 1..Len(st.assigns[2]) |->
                       << <<"Ident", st.assigns[2][i][1]>>, <<"Op", "=">> >>
                       \o ExprYield(st.assigns[2][i][2])])
               \o ClausesYield(st.clauses)
          [] st.kind = "Delete" -> head \o table \o ClausesYield(st.clauses)
          [] st.kind = "Drop" -> head \o table

StmtsYield(sts) == Flat([i \in 1..Len(sts) |-> StmtYield(sts[i])])

\* The same reading of a text: what each token contributes to a statement.
TokenYield(t) ==
    LET k == discriminant(t)
    IN  CASE k \in {"Semicolon", "LParen", "RParen", "Comma", "Table", "Into",
                    "Values", "From", "Set"} -> <<>>
          [] k \in CmpKinds -> <<<<"Op", comparison_op(k)>>>>
          [] k = "And" -> <<<<"Op", "AND">>>>
          [] k = "Or" -> <<<<"Op", "OR">>>>
          [] k = "Num" -> <<IF number(t[2]).ok THEN number(t[2]).val ELSE t>>
          [] OTHER -> <<t>>

RECURSIVE TextYield(_)
TextYield(ts) == IF ts = <<>> THEN <<>> ELSE TokenYield(Head(ts)) \o TextYield(Tail(ts))

Heads(ts) == SelectSeq(ts, LAMBDA t: discriminant(t) \in HeadKinds)

\* The positions of ts holding a token of kind k.
Positions(ts, k) == {i \in 1..Len(ts) : discriminant(ts[i]) = k}

(***************************************************************************)
(* C1.  As claimed: for any text, parse() returns the same statements for  *)
(* the text and for the text with its statement-level ';' removed (and a   *)
(* failure for the one is a failure for the other).                        *)
(***************************************************************************)
C1_AnyTextSameWithoutSeparators ==
    (Done /\ run = 2) =>
        /\ result.ok <=> first.ok
        /\ first.ok => result.val = first.val

(***************************************************************************)
(* C1, amended.  Whenever parse() succeeds on a text, it returns the same  *)
(* statement sequence for the text with the skipped ';' removed; a         *)
(* skipped ';' adds no statement and consumes exactly that token, and the  *)
(* only failure of a skip is the lexical error of the lookahead.           *)
(***************************************************************************)
C1_SeparatorsSkipped ==
    /\ [](( Done /\ run = 2 /\ first.ok) => result = first)
    /\ [][(At("parse_block", "start") /\ curr = Semicolon)
            => IF ret'.ok
               THEN /\ stack' = stack
                    /\ lexer' = lexer + 1
                    /\ curr' = peek
               ELSE ret'.err = LexError]_vars

\* 'DROP TABLE a;;;' has been parsed, then 'DROP TABLE a': one Drop each time.
C1_Witness ==
    /\ Done /\ run = 2
    /\ text = <<K("Drop"), K("Table"), TIdent("a"), Semicolon, Semicolon, Semicolon>>
    /\ input = <<K("Drop"), K("Table"), TIdent("a")>>
    /\ first = Ok(<<[kind |-> "Drop", table |-> "a"]>>)
    /\ result = first

(***************************************************************************)
(* C2.  parse() is all-or-nothing: once a routine has returned an error,   *)
(* every caller up to parse() hands that same error on, consuming nothing  *)
(* and keeping none of the statements parsed before; the caller receives   *)
(* either the complete statement list or the one error.                    *)
(***************************************************************************)
C2_AllOrNothing ==
    /\ [][(phase = "run" /\ ~ret.ok)
            => /\ UNCHANGED <<lexer, curr, peek>>
               /\ IF stack # <<>>
                  THEN stack' = Pop /\ ret' = ret
                  ELSE result' = ret /\ phase' = "done"]_vars
    /\ [](Done => IF result.ok
                  THEN entry = "parse" => curr = Eof
                  ELSE DOMAIN result = {"ok", "err"})

\* parse_block holds one parsed statement when the next one fails.
C2_Witness ==
    /\ At("parse_block", "after_stmt")
    /\ Top.stmts # <<>>
    /\ ~ret.ok

(***************************************************************************)
(* C3.  When parse() succeeds the whole text has been consumed (curr is    *)
(* Eof) and the statements are those of the text in source order: as many  *)
(* as the text has statement keywords, the i-th of the kind of the i-th    *)
(* keyword, and read back in order they give the text's tokens.            *)
(***************************************************************************)
C3_WholeTextInOrder ==
    Parsed =>
        /\ curr = Eof
        /\ lexer = Len(input) + 2
        /\ Len(result.val) = Len(Heads(input))
        /\ \A i \in 1..Len(result.val) :
              result.val[i].kind = discriminant(Heads(input)[i])
        /\ StmtsYield(result.val) = TextYield(input)

\* Two different statements were returned.
C3_Witness ==
    /\ Parsed
    /\ Len(result.val) = 2
    /\ result.val[1].kind # result.val[2].kind

(***************************************************************************)
(* Reading the expressions of a result.                                    *)
(***************************************************************************)
Range(f) == {f[i] : i \in DOMAIN f}

StmtExprs(st) ==
    (IF st.kind = "Drop" THEN {} ELSE {cl[2] : cl \in Range(st.clauses)})
    \cup (IF st.kind = "Insert" THEN Range(st.values[2]) ELSE {})
    \cup (IF st.kind = "Update" THEN {a[2] : a \in Range(st.assigns[2])} ELSE {})

RECURSIVE Nodes(_)
Nodes(e) == IF e[1] = "Binary" THEN {e} \cup Nodes(e[3]) \cup Nodes(e[4]) ELSE {e}

ResultNodes == UNION {UNION {Nodes(e) : e \in StmtExprs(st)} : st \in Range(ResultStmts)}

IsNode(e, ops) == e[1] = "Binary" /\ e[2] \in ops
IsLeaf(e) == e[1] # "Binary"

\* No '(' of the text opens a sub-expression: each follows a table name or
\* VALUES, where it opens a list.
ParenFree(ts) ==
    \A i \in Positions(ts, "LParen") :
        i > 1 /\ discriminant(ts[i - 1]) \in {"Ident", "Values"}

Count(ts, k) == Cardinality(Positions(ts, k))

(***************************************************************************)
(* C4.  AND and OR are left-associative: in a text without parenthesised   *)
(* sub-expressions no AND node has an AND node as its right operand and no *)
(* OR node an OR node; the nodes are labelled "AND" and "OR", one per AND  *)
(* and OR token; 'a = 1 AND b = 2 AND c = 3' gives AND(AND(a=1,b=2),c=3).  *)
(***************************************************************************)
C4_LeftAssociative ==
    /\ (Succeeded /\ ParenFree(input)) =>
          \A n \in ResultNodes :
              /\ IsNode(n, {"AND"}) => ~IsNode(n[4], {"AND", "OR"})
              /\ IsNode(n, {"OR"}) => ~IsNode(n[4], {"OR"})
              /\ IsNode(n, {"AND"}) => ~IsNode(n[3], {"OR"})
    /\ Parsed =>
          /\ Count(StmtsYield(result.val), "Op") =
                Count(input, "And") + Count(input, "Or")
                + Cardinality(UNION {Positions(input, k) : k \in CmpKinds})
          /\ \A n \in ResultNodes : IsNode(n, {"AND", "OR"} \cup CmpOps) \/ IsLeaf(n)
    /\ (Succeeded /\ input = <<K("Select"), K("Mul"), K("From"), TIdent("t"), K("Where"),
                               TIdent("a"), K("Eq"), TNum(<<"1">>), K("And"),
                               TIdent("b"), K("Eq"), TNum(<<"2">>), K("And"),
                               TIdent("c"), K("Eq"), TNum(<<"3">>)>>)
          => ResultStmts[1].clauses =
                <<Where(Binary("AND",
                     Binary("AND", Binary("=", <<"Ident", "a">>, <<"Int", 1>>),
                                   Binary("=", <<"Ident", "b">>, <<"Int", 2>>)),
                     Binary("=", <<"Ident", "c">>, <<"Int", 3>>)))>>

\* A run of three operands joined by two AND (or two OR) has been parsed.
C4_Witness ==
    /\ Succeeded /\ ParenFree(input)
    /\ \E n \in ResultNodes : IsNode(n, {"AND"}) /\ IsNode(n[3], {"AND"})

(***************************************************************************)
(* C5.  Comparison does not chain: what parse_comparison hands to          *)
(* parse_logical_and is one primary, or one operator over two primaries;   *)
(* on 'WHERE a = b = c' it binds the first pair and leaves the second      *)
(* operator unconsumed, so parse() fails on such a text and parse_stmt()   *)
(* returns the statement with Binary(op, a, b) and curr at the operator.   *)
(***************************************************************************)
ChainAt(ts, w) ==
    /\ w + 4 <= Len(ts)
    /\ discriminant(ts[w]) = "Where"
    /\ discriminant(ts[w + 1]) \in {"Ident", "Num", "Text", "Bool", "Null"}
    /\ discriminant(ts[w + 2]) \in CmpKinds
    /\ discriminant(ts[w + 3]) \in {"Ident", "Num", "Text", "Bool", "Null"}
    /\ discriminant(ts[w + 4]) \in CmpKinds

C5_ComparisonDoesNotChain ==
    /\ (/\ phase = "run" /\ stack # <<>>
        /\ Top.fn = "parse_logical_and" /\ Top.pc \in {"left", "right"}
        /\ ret.ok /\ ParenFree(input))
          => \/ IsLeaf(ret.val)
             \/ IsNode(ret.val, CmpOps) /\ IsLeaf(ret.val[3]) /\ IsLeaf(ret.val[4])
    /\ (Succeeded /\ ParenFree(input)) =>
          \A n \in ResultNodes : IsNode(n, CmpOps) => IsLeaf(n[3]) /\ IsLeaf(n[4])
    /\ \A w \in Positions(input, "Where") :
          (Done /\ ChainAt(input, w)) =>
              IF entry = "parse" THEN ~result.ok
              ELSE (result.ok /\ \A u \in Positions(input, "Where") : w <= u)
                   => \/ result.val.kind \in {"Drop", "Create", "Insert"}
                      \/ result.val.clauses = <<>>
                      \/ /\ curr = input[w + 4]
                         /\ lexer = w + 5
                         /\ result.val.clauses[1][2][2] = comparison_op(discriminant(input[w + 2]))
                         /\ IsLeaf(result.val.clauses[1][2][3])
                         /\ IsLeaf(result.val.clauses[1][2][4])

\* parse_comparison has returned Binary("=", a, b) with the second '=' current.
C5_Witness ==
    /\ phase = "run" /\ stack # <<>>
    /\ Top.fn = "parse_logical_and" /\ Top.pc = "left"
    /\ ret = Ok(Binary("=", <<"Ident", "a">>, <<"Ident", "b">>))
    /\ curr = K("Eq")
    /\ peek = TIdent("c")

(***************************************************************************)
(* C6.  parse_stmt decides by the kind of curr alone: each of CREATE,      *)
(* INSERT, SELECT, UPDATE, DELETE, DROP enters its own routine, any other  *)
(* token gives UnexpectedToken("<stmt>", that token); nothing is consumed. *)
(***************************************************************************)
C6_Dispatch ==
    /\ [][At("parse_stmt", "start")
            => LET k == discriminant(curr)
               IN  /\ UNCHANGED <<lexer, curr, peek>>
                   /\ IF k \in HeadKinds
                      THEN /\ Len(stack') = Len(stack)
                           /\ stack'[Len(stack)].pc = "start"
                           /\ stack'[Len(stack)].fn =
                                 CASE k = "Create" -> "parse_create"
                                   [] k = "Insert" -> "parse_insert"
                                   [] k = "Select" -> "parse_select"
                                   [] k = "Update" -> "parse_update"
                                   [] k = "Delete" -> "parse_delete"
                                   [] k = "Drop" -> "parse_drop"
                      ELSE /\ stack' = Pop
                           /\ ret' = Err(UnexpectedToken("<stmt>", DebugFmt(curr)))]_vars
    /\ [](\A k \in HeadKinds :
             (phase = "run" /\ stack # <<>> /\ Top.pc = "start"
              /\ Top.fn \in {"parse_create", "parse_insert", "parse_select",
                             "parse_update", "parse_delete", "parse_drop"}
              /\ discriminant(curr) = k)
                => Top.fn = CASE k = "Create" -> "parse_create"
                              [] k = "Insert" -> "parse_insert"
                              [] k = "Select" -> "parse_select"
                              [] k = "Update" -> "parse_update"
                              [] k = "Delete" -> "parse_delete"
                              [] k = "Drop" -> "parse_drop")

\* parse_stmt called directly at the end of input.
C6_Witness ==
    /\ phase = "run" /\ stack = <<>>
    /\ entry = "parse_stmt"
    /\ curr = Eof
    /\ lexer = 2
    /\ ret = Err(UnexpectedToken("<stmt>", "Eof"))

(***************************************************************************)
(* Reading the text around the parser's position: curr is TokAt(lexer-1),  *)
(* peek is TokAt(lexer), the next token lexed is TokAt(lexer+1).           *)
(***************************************************************************)
TokAt(i) == IF i <= Len(input) THEN input[i] ELSE Eof
LexClean == \A i \in 1..Len(input) : input[i] # Unscannable
ListEndError(t) == Err(UnexpectedToken("',' or ')'", DebugFmt(t)))

\* The token after an element that has just been parsed, per list construct.
CreateDefEnds == At("parse_create", "defs") /\ discriminant(curr) = "Ident"
                    /\ discriminant(peek) = "Ident"
InsertColumnEnds == At("parse_insert", "columns") /\ discriminant(curr) = "Ident"
InsertValueEnds == At("parse_insert", "value") /\ ret.ok
SelectColumnsEnd == At("parse_select", "from") /\ Top.columns # <<"*">>
UpdateAssignEnds == At("parse_update", "assign") /\ ret.ok

(***************************************************************************)
(* C7.  As claimed: in every list construct (CREATE definitions, INSERT    *)
(* columns, INSERT values, SELECT columns, UPDATE assignments), when the   *)
(* token after an element is neither ',' nor the list's closing delimiter, *)
(* the parse fails with UnexpectedToken expecting "',' or ')'".            *)
(***************************************************************************)
C7_EveryListSameError ==
    [][LexClean =>
        /\ (CreateDefEnds /\ TokAt(lexer + 1) \notin {K("Comma"), K("RParen")})
              => ret' = ListEndError(TokAt(lexer + 1))
        /\ (InsertColumnEnds /\ peek \notin {K("Comma"), K("RParen")})
              => ret' = ListEndError(peek)
        /\ (InsertValueEnds /\ curr \notin {K("Comma"), K("RParen")})
              => ret' = ListEndError(curr)
        /\ (SelectColumnsEnd /\ curr \notin {K("Comma"), K("From")})
              => ret' = ListEndError(curr)
        /\ (UpdateAssignEnds /\ curr \notin {K("Comma"), K("Where"), Semicolon, Eof})
              => ret' = ListEndError(curr)]_vars

(***************************************************************************)
(* C7, amended.  The parenthesised lists (CREATE definitions, INSERT       *)
(* columns, INSERT values) fail with UnexpectedToken expecting "',' or     *)
(* ')'" and naming the token after the element when that token is neither *)
(* ',' nor ')' -- unless a token lexed as lookahead on the way is          *)
(* unscannable, which gives the lexical error.  The lists without          *)
(* parentheses end at the first token that is not ',': after SELECT's      *)
(* columns the FROM check fails with UnexpectedToken expecting "From";     *)
(* after UPDATE's assignments nothing fails at that point (an optional     *)
(* WHERE is tried and the statement returned).                             *)
(***************************************************************************)
C7_ParenListsSameError ==
    [][/\ (CreateDefEnds /\ TokAt(lexer + 1) \notin {K("Comma"), K("RParen")})
            => ret' = IF Unscannable \in {TokAt(lexer + 1), TokAt(lexer + 2), TokAt(lexer + 3)}
                      THEN Err(LexError)
                      ELSE ListEndError(TokAt(lexer + 1))
       /\ (InsertColumnEnds /\ peek \notin {K("Comma"), K("RParen")})
            => ret' = IF Unscannable \in {TokAt(lexer + 1), TokAt(lexer + 2)}
                      THEN Err(LexError)
                      ELSE ListEndError(peek)
       /\ (InsertValueEnds /\ curr \notin {K("Comma"), K("RParen")})
            => ret' = IF TokAt(lexer + 1) = Unscannable
                      THEN Err(LexError)
                      ELSE ListEndError(curr)
       /\ (SelectColumnsEnd /\ discriminant(curr) # "From")
            => /\ ret' = Err(UnexpectedToken("From", DebugFmt(curr)))
               /\ UNCHANGED <<lexer, curr, peek>>
       /\ (UpdateAssignEnds /\ discriminant(curr) \notin {"Comma", "Where"})
            => /\ ret'.ok
               /\ ret'.val.kind = "Update"
               /\ Len(ret'.val.assigns[2]) = Len(Top.assigns) + 1
               /\ UNCHANGED <<lexer, curr, peek>>]_vars

\* Each of the three parenthesised lists has failed on an identifier that
\* follows an element; this state is the one of INSERT's value list.
C7_Witness ==
    /\ phase = "run"
    /\ ret = ListEndError(TIdent("z"))
    /\ stack # <<>>
    /\ Top.fn = "parse_block" /\ Top.pc = "after_stmt"
    /\ TokAt(1) = K("Insert")
    /\ TokAt(4) = K("Values")

(***************************************************************************)
(* C8.  Every statement returned is of one of the six kinds; its clauses   *)
(* are empty or hold exactly one Where; Create and Insert hold none; a     *)
(* Select, Update or Delete holds the Where exactly when a WHERE keyword   *)
(* followed its body.  'DELETE FROM users' gives Delete{users, []}.        *)
(***************************************************************************)
HasWhere(st) == st.kind # "Drop" /\ st.clauses # <<>>

WhereProfile(sts) ==
    Flat([i \in 1..Len(sts) |->
            <<sts[i].kind>> \o (IF HasWhere(sts[i]) THEN <<"Where">> ELSE <<>>)])

TextProfile(ts) ==
    LET sel == SelectSeq(ts, LAMBDA t: discriminant(t) \in HeadKinds \cup {"Where"})
    IN  [i \in 1..Len(sel) |-> discriminant(sel[i])]

C8_ClausesWhereOnly ==
    /\ Succeeded =>
          \A st \in Range(ResultStmts) :
              /\ st.kind \in HeadKinds
              /\ st.kind # "Drop" =>
                    \/ st.clauses = <<>>
                    \/ Len(st.clauses) = 1 /\ st.clauses[1][1] = "Where"
              /\ st.kind \in {"Create", "Insert"} => st.clauses = <<>>
    /\ Parsed => WhereProfile(result.val) = TextProfile(input)
    /\ (Succeeded /\ entry = "parse_stmt") =>
          (HasWhere(result.val) <=> \E w \in Positions(input, "Where") : w < lexer - 1)
    /\ (Succeeded /\ input = <<K("Delete"), K("From"), TIdent("users")>>) =>
          ResultStmts = <<[kind |-> "Delete", table |-> "users", clauses |-> <<>>]>>

\* A statement with a Where clause and one without were returned together.
C8_Witness ==
    /\ Parsed
    /\ \E st \in Range(result.val) : HasWhere(st)
    /\ \E st \in Range(result.val) : ~HasWhere(st) /\ st.kind = "Delete"


HeadPosSeq(ts) ==
    SelectSeq([i \in 1..Len(ts) |-> i], LAMBDA i: discriminant(ts[i]) \in HeadKinds)

SelectError(last, e) ==
    result = IF \E i \in 1..last : TokAt(i) = Unscannable THEN Err(LexError) ELSE Err(e)

SameLoop(fn, pc) ==
    /\ At(fn, pc)
    /\ Len(stack') = Len(stack)
    /\ stack'[Len(stack')].fn = fn
    /\ stack'[Len(stack')].pc = pc

NextIteration ==
    \/ SameLoop("parse_block", "start")
    \/ SameLoop("parse_create", "defs")
    \/ SameLoop("parse_insert", "columns")
    \/ SameLoop("parse_select", "columns")
    \/ /\ At("parse_insert", "value")
       /\ Len(stack') = Len(stack) /\ stack'[Len(stack')].pc = "values"
    \/ /\ At("parse_update", "assign")
       /\ Len(stack') = Len(stack) /\ stack'[Len(stack')].pc = "assigns"
    \/ /\ stack # <<>>
       /\ Top.fn \in {"parse_logical_or", "parse_logical_and"}
       /\ Top.pc \in {"left", "right"}
       /\ Len(stack') = Len(stack) + 1

\* The order in which routine positions follow each other without a token
\* being consumed: a callee's return comes before its caller's continuation,
\* a call before its callee's start.
Rank(fn, pc) ==
    CASE fn = "parse_comparison" /\ pc \in {"left", "right"} -> 20
      [] fn = "parse_logical_and" /\ pc \in {"left", "right"} -> 19
      [] fn = "parse_logical_or" /\ pc \in {"left", "right"} -> 18
      [] pc \in {"paren", "where", "value", "assign"} -> 17
      [] fn = "parse_insert" /\ pc = "values" -> 16
      [] fn = "parse_block" /\ pc = "after_stmt" -> 15
      [] fn = "parse" -> 14
      [] fn = "parse_block" /\ pc = "start" -> 13
      [] fn = "parse_stmt" -> 12
      [] fn = "parse_expr" -> 10
      [] fn = "parse_logical_or" -> 9
      [] fn = "parse_logical_and" -> 8
      [] fn = "parse_comparison" -> 7
      [] fn = "parse_primary" -> 6
      [] pc = "start" -> 11
      [] OTHER -> 5

\* What is left to do: the tokens not yet lexed, then whether an error is
\* on its way out, then the position in the order above (the depth of the
\* stack while an error is handed up).
Measure ==
    <<Len(input) + 3 - lexer,
      IF ret.ok THEN 1 ELSE 0,
      IF stack = <<>> THEN 0
      ELSE IF ret.ok THEN Rank(Top.fn, Top.pc) ELSE Len(stack)>>


\* The positions a routine can be at; Next has a step for each of them
\* (at a position that waits for a callee, one for Ok and one for Err).
Steps ==
    {<<"parse", "start">>, <<"parse_block", "start">>, <<"parse_block", "after_stmt">>,
     <<"parse_stmt", "start">>, <<"parse_drop", "start">>,
     <<"parse_create", "start">>, <<"parse_create", "defs">>,
     <<"parse_insert", "start">>, <<"parse_insert", "columns">>,
     <<"parse_insert", "values_head">>, <<"parse_insert", "values">>,
     <<"parse_insert", "value">>,
     <<"parse_select", "start">>, <<"parse_select", "columns">>,
     <<"parse_select", "from">>, <<"parse_select", "where">>,
     <<"parse_update", "start">>, <<"parse_update", "assigns">>,
     <<"parse_update", "assign">>, <<"parse_update", "where">>,
     <<"parse_delete", "start">>, <<"parse_delete", "where">>,
     <<"parse_expr", "start">>,
     <<"parse_logical_or", "start">>, <<"parse_logical_or", "left">>,
     <<"parse_logical_or", "right">>,
     <<"parse_logical_and", "start">>, <<"parse_logical_and", "left">>,
     <<"parse_logical_and", "right">>,
     <<"parse_comparison", "start">>, <<"parse_comparison", "left">>,
     <<"parse_comparison", "right">>,
     <<"parse_primary", "start">>, <<"parse_primary", "paren">>}

CanStep ==
    \/ phase = "init"
    \/ phase = "run" /\ stack = <<>>
    \/ /\ phase = "run"
       /\ stack # <<>>
       /\ <<Top.fn, Top.pc>> \in Steps
       /\ ~ret.ok => Top.pc \in AwaitPcs

Less(a, b) ==
    \/ a[1] < b[1]
    \/ a[1] = b[1] /\ a[2] < b[2]
    \/ a[1] = b[1] /\ a[2] = b[2] /\ a[3] < b[3]

(***************************************************************************)
(* C10.  parse() terminates on every finite text: until the result is      *)
(* there the run is at a position with a step to take, and every step of  *)
(* a run lowers a measure that cannot fall below zero; every step that     *)
(* starts another iteration of a loop has consumed a token; each statement *)
(* collected by parse_block and each ';' skipped accounts for tokens of    *)
(* its own; past the end of the text the lexer keeps answering Eof.        *)
(***************************************************************************)
C10_Terminates ==
    /\ [](phase # "done" => CanStep)
    /\ [][(phase = "run" /\ phase' = "run") => Less(Measure', Measure)]_vars
    /\ [](phase = "run" => (Measure[1] >= 0 /\ Measure[3] >= 0))
    /\ [][NextIteration => lexer' > lexer]_vars
    /\ []((phase = "run" /\ stack # <<>> /\ stack[1].fn = "parse_block")
            => lexer - 2 >= 3 * Len(stack[1].stmts) + Cardinality(skipped))
    /\ [](lexer > Len(input) + 1 => (peek = Eof /\ LexerNext(lexer).val = Eof))

\* A run over a text with two statements and a skipped ';' has come to its
\* result with the lexer past the end of the text.
C10_Witness ==
    /\ Done
    /\ entry = "parse"
    /\ result.ok
    /\ Len(result.val) = 2
    /\ skipped # {}
    /\ lexer > Len(input) + 1


(***************************************************************************)
(* The places where the grammar requires an identifier: the routine        *)
(* position, the tokens that must come before it, the position i of the    *)
(* token that must be an identifier and the last position lexed by the     *)
(* time it is consumed.                                                    *)
(***************************************************************************)
IdentSites ==
    LET c == lexer - 1
    IN  (IF (At("parse_drop", "start") \/ At("parse_create", "start"))
            /\ TokAt(c + 1) = K("Table")
         THEN {<<c + 2, lexer + 3>>} ELSE {})
        \cup (IF At("parse_insert", "start") /\ TokAt(c + 1) = K("Into")
              THEN {<<c + 2, lexer + 3>>} ELSE {})
        \cup (IF At("parse_delete", "start") /\ TokAt(c + 1) = K("From")
              THEN {<<c + 2, lexer + 3>>} ELSE {})
        \cup (IF At("parse_update", "start") THEN {<<c + 1, lexer + 2>>} ELSE {})
        \cup (IF At("parse_select", "from") /\ curr = K("From")
              THEN {<<c + 1, lexer + 2>>} ELSE {})
        \cup (IF At("parse_create", "defs") \/ At("parse_insert", "columns")
                 \/ At("parse_select", "columns") \/ At("parse_update", "assigns")
              THEN {<<c, lexer + 1>>} ELSE {})
        \cup (IF At("parse_create", "defs") /\ discriminant(curr) = "Ident"
              THEN {<<c + 1, lexer + 2>>} ELSE {})

NotIdent(i) == discriminant(TokAt(i)) \notin {"Ident", "?"}
IdentError(i) == Err(UnexpectedToken("<ident>", DebugFmt(TokAt(i))))

(***************************************************************************)
(* C11.  As claimed: wherever the grammar requires an identifier and the   *)
(* token there is not one, the parse fails with UnexpectedToken expecting  *)
(* "<ident>" and naming that token.                                        *)
(***************************************************************************)
C11_AlwaysIdentError ==
    [][\A s \in IdentSites : NotIdent(s[1]) => ret' = IdentError(s[1])]_vars

(***************************************************************************)
(* C11, amended.  Wherever the grammar requires an identifier and the      *)
(* token there is not one, the parse fails: with UnexpectedToken expecting *)
(* "<ident>" and naming that token when every token lexed as lookahead by  *)
(* the time it is consumed can be scanned, and with the lexical error      *)
(* otherwise.  'SELECT FROM' names "<ident>" and the FROM token.           *)
(***************************************************************************)
C11_IdentErrorUnlessLexError ==
    /\ [][\A s \in IdentSites :
            NotIdent(s[1]) =>
                ret' = IF \E j \in (lexer + 1)..s[2] : TokAt(j) = Unscannable
                       THEN Err(LexError)
                       ELSE IdentError(s[1])]_vars
    /\ []((Done /\ input = <<K("Select"), K("From")>>)
            => result = Err(UnexpectedToken("<ident>", "From")))

\* 'SELECT FROM' has been refused.
C11_Witness ==
    /\ Done
    /\ input = <<K("Select"), K("From")>>
    /\ result = Err(UnexpectedToken("<ident>", "From"))


(***************************************************************************)
(* Reading an INSERT back against its text.  h is the position of the      *)
(* statement's INSERT, e the position of its last token.                   *)
(***************************************************************************)
RECURSIVE SplitAt(_, _)
SplitAt(ts, acc) ==
    IF ts = <<>> THEN <<acc>>
    ELSE IF Head(ts) = K("Comma") THEN <<acc>> \o SplitAt(Tail(ts), <<>>)
    ELSE SplitAt(Tail(ts), Append(acc, Head(ts)))

StmtEnd(i) ==
    LET hp == HeadPosSeq(input)
    IN  IF entry = "parse"
        THEN (IF i < Len(hp) THEN hp[i + 1] - 1 ELSE Len(input))
        ELSE IF lexer - 2 < Len(input) THEN lexer - 2 ELSE Len(input)

InsertReadsBack(st, h, e) ==
    LET listed == TokAt(h + 3) = K("LParen")
        cols   == st.columns[2]
        n      == Len(cols)
        v0     == IF listed THEN h + 4 + 2 * n ELSE h + 3
        vals   == st.values[2]
        segs   == SplitAt(SubSeq(input, v0 + 2, e), <<>>)
    IN  /\ st.columns[1] = "Columns"
        /\ st.values[1] = "Values"
        /\ TokAt(h + 2) = TIdent(st.table)
        /\ cols = <<>> <=> ~listed
        /\ \A j \in 1..n :
              /\ TokAt(h + 2 + 2 * j) = TIdent(cols[j])
              /\ TokAt(h + 3 + 2 * j) = (IF j < n THEN K("Comma") ELSE K("RParen"))
        /\ TokAt(v0) = K("Values")
        /\ TokAt(v0 + 1) = K("LParen")
        /\ Len(vals) = Len(segs)
        /\ \A j \in 1..Len(vals) : ExprYield(vals[j]) = TextYield(segs[j])

(***************************************************************************)
(* C12.  In a parsed INSERT the Columns clause is empty exactly when the   *)
(* parenthesised column list is omitted and otherwise holds the listed     *)
(* identifiers in source order; the Values clause holds the value          *)
(* expressions in source order, one for each ','-separated piece of the    *)
(* value list.  'INSERT INTO users (id, name) VALUES (1, 'Alice')' gives   *)
(* columns ["id","name"] and values [Int(1), Text("Alice")].               *)
(***************************************************************************)
C12_InsertColumnsValues ==
    /\ Succeeded =>
          \A i \in 1..Len(ResultStmts) :
              ResultStmts[i].kind = "Insert" =>
                  InsertReadsBack(ResultStmts[i], HeadPosSeq(input)[i], StmtEnd(i))
    /\ (Succeeded /\ input = <<K("Insert"), K("Into"), TIdent("users"), K("LParen"),
                               TIdent("id"), K("Comma"), TIdent("name"), K("RParen"),
                               K("Values"), K("LParen"), TNum(<<"1">>), K("Comma"),
                               TText("Alice"), K("RParen")>>) =>
          ResultStmts = <<[kind |-> "Insert", table |-> "users",
                           columns |-> Columns(<<"id", "name">>),
                           values |-> Values(<< <<"Int", 1>>, <<"Text", "Alice">> >>),
                           clauses |-> <<>>]>>

\* An INSERT with two listed columns and two different values has been parsed.
C12_Witness ==
    /\ Succeeded
    /\ Len(ResultStmts) = 1
    /\ ResultStmts[1].kind = "Insert"
    /\ Len(ResultStmts[1].values[2]) = 2
    /\ ResultStmts[1].values[2][1] # ResultStmts[1].values[2][2]
    /\ ResultStmts[1].columns[2] = <<"a", "b">>


(***************************************************************************)
(* C13.  The lookahead buffer holds two consecutive tokens of the lexer's  *)
(* stream: once constructed, and after any number k of advances, the lexer *)
(* has produced k + 2 tokens, curr is the last but one and peek the last.  *)
(* An advance returns the token that was current, moves peek to curr and   *)
(* lexes one new token; a failed advance replaces nothing.  The position   *)
(* never goes back, so no token is skipped or delivered twice.             *)
(***************************************************************************)
C13_TwoTokenWindow ==
    /\ []((phase # "init" /\ ParserNewOf.ok) =>
            /\ lexer >= 2
            /\ curr = TokAt(lexer - 1)
            /\ peek = TokAt(lexer)
            /\ LET r == next(P)
               IN  IF r.ok
                   THEN /\ r.val = curr
                        /\ r.p.curr = peek
                        /\ r.p.peek = TokAt(lexer + 1)
                        /\ r.p.lexer = lexer + 1
                   ELSE /\ r.p = P
                        /\ TokAt(lexer + 1) = Unscannable)
    /\ []((phase # "init" /\ ~ParserNewOf.ok) =>
            (Unscannable \in {TokAt(1), TokAt(2)} /\ phase = "done" /\ result = Err(LexError)))
    /\ [][phase = "run" => lexer' >= lexer]_vars
    /\ [][(phase = "init" /\ ParserNewOf.ok) =>
            (lexer' = 2 /\ curr' = TokAt(1) /\ peek' = TokAt(2))]_vars

\* Four advances after construction, over a text of different tokens.
C13_Witness ==
    /\ phase = "run"
    /\ lexer = 6
    /\ Len(input) >= 6
    /\ curr = input[5]
    /\ peek = input[6]
    /\ curr # peek


(***************************************************************************)
(* expect and maybe, asked at the parser's state for a token of each kind  *)
(* (with payloads that differ from the ones of the texts).                 *)
(***************************************************************************)
Probes == (Alphabet \ {Unscannable}) \cup {Eof}
Advanced == [lexer |-> lexer + 1, curr |-> peek, peek |-> TokAt(lexer + 1)]
Constructed == phase # "init" /\ ParserNewOf.ok

Mismatch(tok) ==
    /\ expect(P, tok) = [ok |-> FALSE, p |-> P,
                         err |-> UnexpectedToken(DebugFmt(tok), DebugFmt(curr))]
    /\ maybe(P, tok) = [ok |-> TRUE, val |-> FALSE, p |-> P]

(***************************************************************************)
(* C14.  As claimed: expect(kind) and maybe(kind) decide by the kind of    *)
(* curr only; on a match each consumes exactly one token (expect succeeds, *)
(* maybe returns true); on a mismatch expect returns UnexpectedToken       *)
(* naming the expected and the found token, maybe returns false, and curr, *)
(* peek and the lexer position are unchanged.                              *)
(***************************************************************************)
C14_MatchConsumesOne ==
    Constructed =>
        \A tok \in Probes :
            IF discriminant(curr) = discriminant(tok)
            THEN /\ expect(P, tok).ok
                 /\ expect(P, tok).p = Advanced
                 /\ maybe(P, tok) = [ok |-> TRUE, val |-> TRUE, p |-> Advanced]
            ELSE Mismatch(tok)

(***************************************************************************)
(* C14, amended.  expect(kind) and maybe(kind) decide by the kind of curr  *)
(* only.  On a match each advances: when the next token can be lexed it    *)
(* consumes exactly one token (expect succeeds, maybe returns true); when  *)
(* it cannot, each returns the lexical error and curr, peek and the lexer  *)
(* position are unchanged.  On a mismatch expect returns UnexpectedToken   *)
(* naming the expected and the found token, maybe returns false, and       *)
(* nothing is changed.                                                     *)
(***************************************************************************)
C14_MatchAdvances ==
    Constructed =>
        \A tok \in Probes :
            IF discriminant(curr) = discriminant(tok)
            THEN IF TokAt(lexer + 1) # Unscannable
                 THEN /\ expect(P, tok) = [ok |-> TRUE, val |-> <<>>, p |-> Advanced]
                      /\ maybe(P, tok) = [ok |-> TRUE, val |-> TRUE, p |-> Advanced]
                 ELSE /\ expect(P, tok) = [ok |-> FALSE, err |-> LexError, p |-> P]
                      /\ maybe(P, tok) = [ok |-> FALSE, err |-> LexError, p |-> P]
            ELSE Mismatch(tok)

\* expect(From) has refused a ',' and left it in curr; the identifier in
\* front of it is matched by kind whatever its name.
C14_Witness ==
    /\ phase = "run"
    /\ ret = Err(UnexpectedToken("From", "Comma"))
    /\ curr = K("Comma")
    /\ peek = TokAt(lexer)
    /\ expect(P, K("Comma")).ok
    /\ ~maybe(P, TIdent("z")).val


(***************************************************************************)
(* The grammar level of an expression, and the operands that no level of   *)
(* the grammar yields without parentheses: an OR to the right of OR, an OR *)
(* or (to the right) an AND under AND, anything but a primary under a      *)
(* comparison.                                                             *)
(***************************************************************************)
Level(e) ==
    IF IsNode(e, {"OR"}) THEN 1
    ELSE IF IsNode(e, {"AND"}) THEN 2
    ELSE IF IsNode(e, CmpOps) THEN 3
    ELSE 4

Inverted(n) ==
    {side \in {3, 4} :
        /\ ~IsLeaf(n)
        /\ Level(n[side]) < (CASE Level(n) = 1 -> (IF side = 3 THEN 1 ELSE 2)
                               [] Level(n) = 2 -> (IF side = 3 THEN 2 ELSE 3)
                               [] OTHER -> 4)}

SubExprParens(ts) ==
    {i \in Positions(ts, "LParen") :
        ~(i > 1 /\ discriminant(ts[i - 1]) \in {"Ident", "Values"})}

WhereOf(e) ==
    <<K("Select"), K("Mul"), K("From"), TIdent("t"), K("Where")>> \o e

SelectWhere(tree) ==
    Ok(<<[kind |-> "Select", table |-> "t", columns |-> Columns(<<"*">>),
          clauses |-> <<Where(tree)>>]>>)

Leaf(i) == <<"Ident", Name(i)>>

(***************************************************************************)
(* C15.  Comparison binds tighter than AND and AND tighter than OR: 'a OR  *)
(* b AND c' is OR(a, AND(b, c)), 'a AND b OR c' is OR(AND(a, b), c).  A    *)
(* '(' in operand position starts the full expr production; once that      *)
(* sub-expression is parsed the token in curr must be ')', otherwise       *)
(* UnexpectedToken; the sub-expression is the operand itself, with no node *)
(* of its own: '(a OR b) AND c' is AND(OR(a, b), c).  An operand of a      *)
(* lower level than its place allows is found only where the text has      *)
(* parentheses.                                                            *)
(***************************************************************************)
C15_BindingStrength ==
    /\ []((Done /\ entry = "parse") =>
            /\ input = WhereOf(<<TIdent("a"), K("Or"), TIdent("b"), K("And"), TIdent("c")>>)
                 => result = SelectWhere(Binary("OR", Leaf(1),
                                                Binary("AND", Leaf(2), Leaf(3))))
            /\ input = WhereOf(<<TIdent("a"), K("And"), TIdent("b"), K("Or"), TIdent("c")>>)
                 => result = SelectWhere(Binary("OR", Binary("AND", Leaf(1), Leaf(2)),
                                                Leaf(3)))
            /\ input = WhereOf(<<K("LParen"), TIdent("a"), K("Or"), TIdent("b"),
                                 K("RParen"), K("And"), TIdent("c")>>)
                 => result = SelectWhere(Binary("AND", Binary("OR", Leaf(1), Leaf(2)),
                                                Leaf(3))))
    /\ [](Succeeded =>
            /\ Cardinality({n \in ResultNodes : Inverted(n) # {}})
                  <= Cardinality(SubExprParens(input))
            /\ \A n \in ResultNodes : n[1] # "Paren")
    /\ [][(At("parse_primary", "start") /\ curr = K("LParen")
             /\ TokAt(lexer + 1) # Unscannable)
            => (/\ Len(stack') = Len(stack) + 1
                /\ stack'[Len(stack')] = Frame("parse_expr")
                /\ lexer' = lexer + 1)]_vars
    /\ [][(At("parse_primary", "paren") /\ ret.ok) =>
            IF curr = K("RParen")
            THEN TokAt(lexer + 1) # Unscannable =>
                    (ret' = ret /\ stack' = Pop /\ lexer' = lexer + 1)
            ELSE /\ ret' = Err(UnexpectedToken("RParen", DebugFmt(curr)))
                 /\ UNCHANGED <<lexer, curr, peek>>]_vars

\* '(a OR b) AND c' has been parsed with the OR under the AND.
C15_Witness ==
    /\ Done
    /\ entry = "parse"
    /\ input = WhereOf(<<K("LParen"), TIdent("a"), K("Or"), TIdent("b"),
                         K("RParen"), K("And"), TIdent("c")>>)
    /\ result = SelectWhere(Binary("AND", Binary("OR", Leaf(1), Leaf(2)), Leaf(3)))

\* A sub-expression has been parsed and the token after it is not ')'.
C15_WitnessUnclosed ==
    /\ phase = "run"
    /\ ret = Err(UnexpectedToken("RParen", "Eof"))


(***************************************************************************)
(* C16.  Every list of a parsed statement that was written in the text has *)
(* at least one element: Create.defs, Insert.values, Select.columns and    *)
(* Update.assigns are never empty, Insert.columns is not empty when the    *)
(* text has the parenthesised column list; a list position that holds the  *)
(* token closing or following the list is an error, and so are the texts   *)
(* with '()', 'SELECT FROM t' and 'UPDATE t SET WHERE ...'.                *)
(***************************************************************************)
C16_ListsNotEmpty ==
    /\ [](Succeeded =>
            \A i \in 1..Len(ResultStmts) :
                LET st == ResultStmts[i]
                IN  /\ st.kind = "Create" => st.defs[2] # <<>>
                    /\ st.kind = "Insert" =>
                          /\ st.values[2] # <<>>
                          /\ TokAt(HeadPosSeq(input)[i] + 3) = K("LParen")
                                => st.columns[2] # <<>>
                    /\ st.kind = "Select" => st.columns[2] # <<>>
                    /\ st.kind = "Update" => st.assigns[2] # <<>>)
    /\ []((Done /\ input \in EmptyLists) => ~result.ok)
    /\ [][((At("parse_create", "defs") \/ At("parse_insert", "columns")) /\ curr = K("RParen"))
            => ~ret'.ok]_vars
    /\ [][(At("parse_select", "columns") /\ curr = K("From")) => ~ret'.ok]_vars
    /\ [][(At("parse_update", "assigns") /\ discriminant(curr) # "Ident") => ~ret'.ok]_vars
    /\ [][(At("parse_insert", "values") /\ curr = K("RParen")) =>
            stack'[Len(stack')] = Frame("parse_expr")]_vars
    /\ [][(At("parse_primary", "start") /\ curr = K("RParen")) => ~ret'.ok]_vars

\* 'UPDATE t SET WHERE x' has been refused at the place of its first assignment.
C16_Witness ==
    /\ Done
    /\ entry = "parse"
    /\ input = <<K("Update"), TIdent("t"), K("Set"), K("Where"), TIdent("x")>>
    /\ result = Err(UnexpectedToken("<ident>", "Where"))


TwoDrops == <<[kind |-> "Drop", table |-> "a"], [kind |-> "Drop", table |-> "b"]>>

(***************************************************************************)
(* C17.  Statements need no separator.  parse_block keeps the statement    *)
(* returned to it and is back at the head of its loop without consuming    *)
(* anything, and there starts the next statement at any token that is no   *)
(* ';' and no terminator.  'DROP TABLE a DROP TABLE b' gives the same two  *)
(* statements as 'DROP TABLE a ; DROP TABLE b', and whatever parses with   *)
(* ';' between its statements parses to the same without them.             *)
(***************************************************************************)
C17_NoSeparatorNeeded ==
    /\ []((Done /\ entry = "parse"
             /\ input \in {<<K("Drop"), K("Table"), TIdent("a"),
                             K("Drop"), K("Table"), TIdent("b")>>,
                           <<K("Drop"), K("Table"), TIdent("a"), Semicolon,
                             K("Drop"), K("Table"), TIdent("b")>>})
            => result = Ok(TwoDrops))
    /\ []((Parsed /\ Count(input, "Semicolon") = 0)
            => Len(result.val) = Len(Heads(input)))
    /\ []((Done /\ run = 2 /\ first.ok /\ Len(first.val) >= 2)
            => (Count(input, "Semicolon") = 0 /\ result = first))
    /\ [][(At("parse_block", "after_stmt") /\ ret.ok) =>
            /\ UNCHANGED <<lexer, curr, peek>>
            /\ Len(stack') = Len(stack)
            /\ stack'[Len(stack')].pc = "start"
            /\ stack'[Len(stack')].stmts = Append(Top.stmts, ret.val)]_vars
    /\ [][(At("parse_block", "start") /\ curr # Semicolon
             /\ discriminant(curr) \notin Top.terms) =>
            /\ UNCHANGED <<lexer, curr, peek>>
            /\ Len(stack') = Len(stack) + 1
            /\ stack'[Len(stack')] = Frame("parse_stmt")]_vars

\* 'DROP TABLE a ; DROP TABLE b' has been parsed, and then the same text
\* without its ';', to the same two statements.
C17_Witness ==
    /\ Done
    /\ run = 2
    /\ input = <<K("Drop"), K("Table"), TIdent("a"), K("Drop"), K("Table"), TIdent("b")>>
    /\ first = Ok(TwoDrops)
    /\ result = first


FirstTwoUnscannable == Unscannable \in {TokAt(1), TokAt(2)}
GrammarError == Done /\ ~result.ok /\ result.err # LexError

(***************************************************************************)
(* C18.  Lexical errors surface two tokens ahead of the grammar.  The      *)
(* advance that consumes curr (the token at position lexer - 1) lexes the  *)
(* token at position lexer + 1, and a lexical error is the error of that   *)
(* token, with every token before it lexed.  A grammar error names a token *)
(* that is curr or was curr one advance ago, so the token after it has     *)
(* been lexed: an unscannable token right after the offending one comes    *)
(* first.  'DROP TABLE 5 ?' with '?' unscannable gives the lexical error,  *)
(* not UnexpectedToken "<ident>".  A lexical error in one of the first two *)
(* tokens fails the construction, before any routine has run.              *)
(***************************************************************************)
C18_LexicalErrorFirst ==
    /\ [][(phase = "run" /\ ret.ok /\ ~ret'.ok /\ ret'.err = LexError) =>
            /\ TokAt(lexer' + 1) = Unscannable
            /\ curr' = TokAt(lexer' - 1)
            /\ \A i \in 1..lexer' : TokAt(i) # Unscannable]_vars
    /\ []((Done /\ result = Err(LexError)) =>
            \/ FirstTwoUnscannable
            \/ TokAt(lexer + 1) = Unscannable /\ \A i \in 1..lexer : TokAt(i) # Unscannable)
    /\ [](GrammarError =>
            /\ \A i \in 1..lexer : TokAt(i) # Unscannable
            /\ result.err[1] = "UnexpectedToken" =>
                  \E j \in {lexer - 1, lexer - 2} :
                      /\ j >= 1
                      /\ result.err[3] = DebugFmt(TokAt(j))
                      /\ TokAt(j + 1) # Unscannable)
    /\ []((Done /\ input = <<K("Drop"), K("Table"), TNum(<<"5">>), Unscannable>>)
            => result = Err(LexError))
    /\ [](FirstTwoUnscannable =>
            /\ phase # "run"
            /\ stack = <<>>
            /\ lexer = 0
            /\ Done => result = Err(LexError))
    /\ []((Parsed /\ run = 1) => LexClean)

\* 'DROP TABLE 5 ?' has given the lexical error, with the number in peek
\* and never looked at.
C18_Witness ==
    /\ Done
    /\ input = <<K("Drop"), K("Table"), TNum(<<"5">>), Unscannable>>
    /\ result = Err(LexError)
    /\ peek = TNum(<<"5">>)
    /\ lexer = 3

\* A text with an unscannable second token has failed the construction.
C18_WitnessConstruction ==
    /\ Done
    /\ TokAt(1) # Unscannable
    /\ TokAt(2) = Unscannable
    /\ result = Err(LexError)
    /\ lexer = 0

====
